---- MODULE Spec2Model ----
(***************************************************************************)
(* Model of two parts of the scylla-operator:                              *)
(*   - the node health probes Readyz / Healthz                             *)
(*     (pkg/probeserver/scylladbapistatus/prober.go), and                  *)
(*   - the ScyllaDBDatacenter status calculation of the datacenter         *)
(*     controller (calculateStatus, updateAggregatedStatusFields,          *)
(*     setPrewarmedStatusCondition, updateStatus).                         *)
(***************************************************************************)
EXTENDS Integers, Sequences, FiniteSets, TLC

(***************************************************************************)
(* Bounds of the model.                                                    *)
(***************************************************************************)
\* Largest number of configured await paths.
MaxPaths == 2
\* Largest length of the node-status list the database API returns.
MaxStatuses == 2
\* Largest number of replicas of a rack.
MaxReplicas == 1
\* Number of reconciliation passes followed.
MaxPasses == 2

(***************************************************************************)
(* Program constants.                                                      *)
(***************************************************************************)
StatusOK == 200
StatusInternalServerError == 500
StatusServiceUnavailable == 503
NodeMaintenanceLabel == "scylla/node-maintenance"

\* Outcomes of os.Stat on one await path.
StatOutcomes == {"exists", "absent", "error"}
\* Host identifiers the administrative API may report.
HostIDs == {"h1", "h2"}
\* One entry of the node-status list (scyllaclient.NodeStatusInfo).
NodeStatusInfo == [HostID : HostIDs, Status : {"U", "D"}, State : {"N", "L"}]
\* Labels a member Service may carry.
ServiceLabels == {NodeMaintenanceLabel, "app"}

RECURSIVE SeqsUpTo(_, _)
SeqsUpTo(S, n) ==
    IF n = 0 THEN {<<>>}
    ELSE LET shorter == SeqsUpTo(S, n - 1)
         IN  shorter \cup {Append(s, x) : s \in {t \in shorter : Len(t) = n - 1}, x \in S}

VARIABLES
    \* ---- probe server: the world the prober reads
    statResults,   \* outcome of os.Stat for each entry of Prober.awaitPaths
    svc,           \* outcome of serviceLister.Services(ns).Get(serviceName)
    \* ---- probe server: one handler invocation
    handler,       \* "none", "Readyz" or "Healthz"
    pc,            \* position of the invocation in the handler
    written,       \* status codes passed to w.WriteHeader, in order
    client,        \* NewScyllaClientForLocalhost: "none" (not called), "ok", "error"
    statusCall,    \* scyllaClient.Status: "none", "ok", "error"
    nodeStatuses,  \* the list scyllaClient.Status returned
    hostIDCall,    \* scyllaClient.GetLocalHostId: "none", "ok", "error"
    hostID,        \* the host ID GetLocalHostId returned
    idx,           \* index of the next nodeStatuses entry the loop examines
    transport,     \* per entry: outcome of IsNativeTransportEnabled made for it
    pingCall,      \* scyllaClient.Ping: "none", "ok", "error"
    \* ---- datacenter controller: the objects a reconciliation pass reads
    sdc,             \* the ScyllaDBDatacenter: Generation, Spec.ScyllaDB.Image, Spec.Racks
    stored,          \* its Status as held by the API server
    statefulSetMap,  \* StatefulSet name -> StatefulSet (or NoStatefulSet)
    services,        \* names of the member Services in the services map
    pods,            \* pod name -> Pod as the pod lister returns it (or NoPod)
    now,             \* the clock, in reconciliation passes
    \* ---- datacenter controller: one reconciliation pass
    rpc,             \* position of the pass
    current,         \* currentSC.Status, read when the pass starts
    status,          \* the status being calculated
    arg,             \* the status handed to updateStatus
    sent,            \* the Status of every object passed to UpdateStatus
    prev             \* how the previous pass ended

probeVars == <<statResults, svc, handler, pc, written, client, statusCall,
               nodeStatuses, hostIDCall, hostID, idx, transport, pingCall>>

worldVars == <<sdc, statefulSetMap, services, pods>>
passVars == <<rpc, current, status, arg, sent>>
statusVars == <<worldVars, stored, now, passVars, prev>>

vars == <<probeVars, statusVars>>

(***************************************************************************)
(* Prober helpers.                                                         *)
(***************************************************************************)
\* Prober.isNodeUnderMaintenance: (hasLabel, err).
isNodeUnderMaintenance(s) ==
    IF s.err
    THEN [hasLabel |-> FALSE, err |-> TRUE]
    ELSE [hasLabel |-> NodeMaintenanceLabel \in s.labels, err |-> FALSE]

\* Prober.awaitPathsExist: (ready, err).  Stat errors other than ErrNotExist
\* are collected and aggregated; an absent path clears ready.
awaitPathsExist(stats) ==
    LET errs  == {i \in 1..Len(stats) : stats[i] = "error"}
        ready == \A i \in 1..Len(stats) : stats[i] # "absent"
    IN  IF errs # {}
        THEN [ready |-> FALSE, err |-> TRUE]
        ELSE [ready |-> ready, err |-> FALSE]

\* NodeStatusInfo.IsUN: status up and state normal.
IsUN(s) == s.Status = "U" /\ s.State = "N"

\* w.WriteHeader(code) followed by return.
WriteAndReturn(code) ==
    /\ written' = Append(written, code)
    /\ pc' = "done"

(***************************************************************************)
(* Values of the datacenter status.                                        *)
(***************************************************************************)
\* A nil *int32 / *int64.
NilInt == 0 - 1

\* The zero ScyllaDBDatacenterStatus.
EmptyStatus ==
    [ObservedGeneration |-> NilInt, Nodes |-> NilInt, ReadyNodes |-> NilInt,
     AvailableNodes |-> NilInt, Racks |-> <<>>, Conditions |-> <<>>]

\* The datacenter controller at rest, with no datacenter to reconcile.
StatusParked ==
    /\ sdc = [Name |-> "dc", Generation |-> 2, Image |-> <<"scylladb/scylla">>, Racks |-> <<>>]
    /\ stored = EmptyStatus
    /\ statefulSetMap = <<>>
    /\ services = {}
    /\ pods = <<>>
    /\ now = 0
    /\ rpc = "idle"
    /\ current = EmptyStatus
    /\ status = EmptyStatus
    /\ arg = EmptyStatus
    /\ sent = <<>>
    /\ prev = "none"

\* The probe server at rest, with nothing to stat and a plain Service.
ProbeParked ==
    /\ statResults = <<>>
    /\ svc = [err |-> FALSE, labels |-> {}]
    /\ handler = "none"
    /\ pc = "idle"
    /\ written = <<>>
    /\ client = "none"
    /\ statusCall = "none"
    /\ nodeStatuses = <<>>
    /\ hostIDCall = "none"
    /\ hostID = "none"
    /\ idx = 1
    /\ transport = <<>>
    /\ pingCall = "none"

ProbeInit ==
    /\ StatusParked
    /\ statResults \in SeqsUpTo(StatOutcomes, MaxPaths)
    /\ svc \in {[err |-> TRUE, labels |-> {}]}
               \cup {[err |-> FALSE, labels |-> l] : l \in SUBSET ServiceLabels}
    /\ handler = "none"
    /\ pc = "idle"
    /\ written = <<>>
    /\ client = "none"
    /\ statusCall = "none"
    /\ nodeStatuses = <<>>
    /\ hostIDCall = "none"
    /\ hostID = "none"
    /\ idx = 1
    /\ transport = <<>>
    /\ pingCall = "none"

\* The HTTP server dispatches a request to one of the two handlers.
Request(h) ==
    /\ pc = "idle"
    /\ UNCHANGED statusVars
    /\ handler' = h
    /\ pc' = "awaitPaths"
    /\ UNCHANGED <<statResults, svc, written, client, statusCall, nodeStatuses,
                   hostIDCall, hostID, idx, transport, pingCall>>

(***************************************************************************)
(* Prober.Readyz                                                           *)
(***************************************************************************)
Readyz_AwaitPaths ==
    /\ handler = "Readyz" /\ pc = "awaitPaths"
    /\ UNCHANGED statusVars
    /\ LET r == awaitPathsExist(statResults)
       IN  IF r.err THEN WriteAndReturn(StatusInternalServerError)
           ELSE IF ~r.ready THEN WriteAndReturn(StatusServiceUnavailable)
           ELSE pc' = "maintenance" /\ UNCHANGED written
    /\ UNCHANGED <<statResults, svc, handler, client, statusCall, nodeStatuses,
                   hostIDCall, hostID, idx, transport, pingCall>>

Readyz_Maintenance ==
    /\ handler = "Readyz" /\ pc = "maintenance"
    /\ UNCHANGED statusVars
    /\ LET r == isNodeUnderMaintenance(svc)
       IN  IF r.err THEN WriteAndReturn(StatusServiceUnavailable)
           ELSE IF r.hasLabel THEN WriteAndReturn(StatusServiceUnavailable)
           ELSE pc' = "client" /\ UNCHANGED written
    /\ UNCHANGED <<statResults, svc, handler, client, statusCall, nodeStatuses,
                   hostIDCall, hostID, idx, transport, pingCall>>

Readyz_Client ==
    /\ handler = "Readyz" /\ pc = "client"
    /\ UNCHANGED statusVars
    /\ \E r \in {"ok", "error"} :
         /\ client' = r
         /\ IF r = "error" THEN WriteAndReturn(StatusInternalServerError)
            ELSE pc' = "status" /\ UNCHANGED written
    /\ UNCHANGED <<statResults, svc, handler, statusCall, nodeStatuses,
                   hostIDCall, hostID, idx, transport, pingCall>>

Readyz_Status ==
    /\ handler = "Readyz" /\ pc = "status"
    /\ UNCHANGED statusVars
    /\ \/ /\ statusCall' = "error"
          /\ WriteAndReturn(StatusInternalServerError)
          /\ UNCHANGED <<nodeStatuses, transport>>
       \/ \E l \in SeqsUpTo(NodeStatusInfo, MaxStatuses) :
            /\ statusCall' = "ok"
            /\ nodeStatuses' = l
            /\ transport' = [i \in 1..Len(l) |-> "none"]
            /\ pc' = "hostID"
            /\ UNCHANGED written
    /\ UNCHANGED <<statResults, svc, handler, client, hostIDCall, hostID, idx, pingCall>>

\* Readyz_HostID answering "unavailable" when GetLocalHostId fails.
Readyz_HostID_Unavailable ==
    /\ handler = "Readyz" /\ pc = "hostID"
    /\ UNCHANGED statusVars
    /\ \/ /\ hostIDCall' = "error"
          /\ WriteAndReturn(StatusServiceUnavailable)
          /\ UNCHANGED hostID
       \/ \E h \in HostIDs :
            /\ hostIDCall' = "ok"
            /\ hostID' = h
            /\ pc' = "scan"
            /\ UNCHANGED written
    /\ UNCHANGED <<statResults, svc, handler, client, statusCall, nodeStatuses,
                   idx, transport, pingCall>>

Readyz_HostID ==
    /\ handler = "Readyz" /\ pc = "hostID"
    /\ UNCHANGED statusVars
    /\ \/ /\ hostIDCall' = "error"
          /\ WriteAndReturn(StatusInternalServerError)
          /\ UNCHANGED hostID
       \/ \E h \in HostIDs :
            /\ hostIDCall' = "ok"
            /\ hostID' = h
            /\ pc' = "scan"
            /\ UNCHANGED written
    /\ UNCHANGED <<statResults, svc, handler, client, statusCall, nodeStatuses,
                   idx, transport, pingCall>>

\* Readyz_Scan with the up-and-normal test dropped.
Readyz_Scan_NoUNCheck ==
    /\ handler = "Readyz" /\ pc = "scan"
    /\ UNCHANGED statusVars
    /\ idx <= Len(nodeStatuses)
    /\ LET s == nodeStatuses[idx]
       IN  IF s.HostID = hostID
           THEN \E r \in {"error", "enabled", "disabled"} :
                  /\ transport' = [transport EXCEPT ![idx] = r]
                  /\ IF r = "error"
                     THEN WriteAndReturn(StatusServiceUnavailable) /\ UNCHANGED idx
                     ELSE IF r = "enabled"
                     THEN WriteAndReturn(StatusOK) /\ UNCHANGED idx
                     ELSE idx' = idx + 1 /\ UNCHANGED <<written, pc>>
           ELSE idx' = idx + 1 /\ UNCHANGED <<written, pc, transport>>
    /\ UNCHANGED <<statResults, svc, handler, client, statusCall, nodeStatuses,
                   hostIDCall, hostID, pingCall>>

\* Readyz_Scan with the return after WriteHeader(200) missing.
Readyz_Scan_NoReturn ==
    /\ handler = "Readyz" /\ pc = "scan"
    /\ UNCHANGED statusVars
    /\ idx <= Len(nodeStatuses)
    /\ LET s == nodeStatuses[idx]
       IN  IF s.HostID = hostID /\ IsUN(s)
           THEN \E r \in {"error", "enabled", "disabled"} :
                  /\ transport' = [transport EXCEPT ![idx] = r]
                  /\ IF r = "error"
                     THEN WriteAndReturn(StatusServiceUnavailable) /\ UNCHANGED idx
                     ELSE IF r = "enabled"
                     THEN /\ written' = Append(written, StatusOK)
                          /\ idx' = idx + 1
                          /\ UNCHANGED pc
                     ELSE idx' = idx + 1 /\ UNCHANGED <<written, pc>>
           ELSE idx' = idx + 1 /\ UNCHANGED <<written, pc, transport>>
    /\ UNCHANGED <<statResults, svc, handler, client, statusCall, nodeStatuses,
                   hostIDCall, hostID, pingCall>>

\* One iteration of the loop over nodeStatuses.
Readyz_Scan ==
    /\ handler = "Readyz" /\ pc = "scan"
    /\ UNCHANGED statusVars
    /\ idx <= Len(nodeStatuses)
    /\ LET s == nodeStatuses[idx]
       IN  IF s.HostID = hostID /\ IsUN(s)
           THEN \E r \in {"error", "enabled", "disabled"} :
                  /\ transport' = [transport EXCEPT ![idx] = r]
                  /\ IF r = "error"
                     THEN WriteAndReturn(StatusServiceUnavailable) /\ UNCHANGED idx
                     ELSE IF r = "enabled"
                     THEN WriteAndReturn(StatusOK) /\ UNCHANGED idx
                     ELSE idx' = idx + 1 /\ UNCHANGED <<written, pc>>
           ELSE idx' = idx + 1 /\ UNCHANGED <<written, pc, transport>>
    /\ UNCHANGED <<statResults, svc, handler, client, statusCall, nodeStatuses,
                   hostIDCall, hostID, pingCall>>

\* The loop ended without returning.
Readyz_NotReady ==
    /\ handler = "Readyz" /\ pc = "scan"
    /\ UNCHANGED statusVars
    /\ idx > Len(nodeStatuses)
    /\ WriteAndReturn(StatusServiceUnavailable)
    /\ UNCHANGED <<statResults, svc, handler, client, statusCall, nodeStatuses,
                   hostIDCall, hostID, idx, transport, pingCall>>

Readyz ==
    \/ Readyz_AwaitPaths
    \/ Readyz_Maintenance
    \/ Readyz_Client
    \/ Readyz_Status
    \/ Readyz_HostID
    \/ Readyz_Scan
    \/ Readyz_NotReady

(***************************************************************************)
(* Prober.Healthz                                                          *)
(***************************************************************************)
\* Healthz_AwaitPaths treating a not yet provisioned node as unhealthy.
Healthz_AwaitPaths_Unavailable ==
    /\ handler = "Healthz" /\ pc = "awaitPaths"
    /\ UNCHANGED statusVars
    /\ LET r == awaitPathsExist(statResults)
       IN  IF r.err THEN WriteAndReturn(StatusInternalServerError)
           ELSE IF ~r.ready THEN WriteAndReturn(StatusServiceUnavailable)
           ELSE pc' = "maintenance" /\ UNCHANGED written
    /\ UNCHANGED <<statResults, svc, handler, client, statusCall, nodeStatuses,
                   hostIDCall, hostID, idx, transport, pingCall>>

Healthz_AwaitPaths ==
    /\ handler = "Healthz" /\ pc = "awaitPaths"
    /\ UNCHANGED statusVars
    /\ LET r == awaitPathsExist(statResults)
       IN  IF r.err THEN WriteAndReturn(StatusInternalServerError)
           ELSE IF ~r.ready THEN WriteAndReturn(StatusOK)
           ELSE pc' = "maintenance" /\ UNCHANGED written
    /\ UNCHANGED <<statResults, svc, handler, client, statusCall, nodeStatuses,
                   hostIDCall, hostID, idx, transport, pingCall>>

Healthz_Maintenance ==
    /\ handler = "Healthz" /\ pc = "maintenance"
    /\ UNCHANGED statusVars
    /\ LET r == isNodeUnderMaintenance(svc)
       IN  IF r.err THEN WriteAndReturn(StatusServiceUnavailable)
           ELSE IF r.hasLabel THEN WriteAndReturn(StatusOK)
           ELSE pc' = "client" /\ UNCHANGED written
    /\ UNCHANGED <<statResults, svc, handler, client, statusCall, nodeStatuses,
                   hostIDCall, hostID, idx, transport, pingCall>>

Healthz_Client ==
    /\ handler = "Healthz" /\ pc = "client"
    /\ UNCHANGED statusVars
    /\ \E r \in {"ok", "error"} :
         /\ client' = r
         /\ IF r = "error" THEN WriteAndReturn(StatusInternalServerError)
            ELSE pc' = "ping" /\ UNCHANGED written
    /\ UNCHANGED <<statResults, svc, handler, statusCall, nodeStatuses,
                   hostIDCall, hostID, idx, transport, pingCall>>

Healthz_Ping ==
    /\ handler = "Healthz" /\ pc = "ping"
    /\ UNCHANGED statusVars
    /\ \E r \in {"ok", "error"} :
         /\ pingCall' = r
         /\ IF r = "error" THEN WriteAndReturn(StatusServiceUnavailable)
            ELSE WriteAndReturn(StatusOK)
    /\ UNCHANGED <<statResults, svc, handler, client, statusCall, nodeStatuses,
                   hostIDCall, hostID, idx, transport>>

Healthz ==
    \/ Healthz_AwaitPaths
    \/ Healthz_Maintenance
    \/ Healthz_Client
    \/ Healthz_Ping

\* The handler has returned; the server is ready for the next request.  The
\* world the prober reads stays as it is, everything local to the invocation
\* is dropped.
Respond ==
    /\ pc = "done"
    /\ UNCHANGED statusVars
    /\ handler' = "none"
    /\ pc' = "idle"
    /\ written' = <<>>
    /\ client' = "none"
    /\ statusCall' = "none"
    /\ nodeStatuses' = <<>>
    /\ hostIDCall' = "none"
    /\ hostID' = "none"
    /\ idx' = 1
    /\ transport' = <<>>
    /\ pingCall' = "none"
    /\ UNCHANGED <<statResults, svc>>

ProbeNext ==
    \/ \E h \in {"Readyz", "Healthz"} : Request(h)
    \/ Readyz
    \/ Healthz
    \/ Respond

ProbeSpec == ProbeInit /\ [][ProbeNext]_vars

(***************************************************************************)
(* Datacenter controller: data.                                            *)
(***************************************************************************)
\* Name and generation of the one ScyllaDBDatacenter reconciled.
SdcName == "dc"
\* Image references: with a version tag, and without one.
Images == {<<"scylladb/scylla", "6.2.0">>, <<"scylladb/scylla">>}
\* Rack names of the datacenter specification.
RackNames == {"a", "b"}
\* The rack lists of the specification: no rack, one rack, two racks in
\* either order.
RackNameLists == {<<>>, <<"b">>, <<"a", "b">>, <<"b", "a">>}

NoStatefulSet == [present |-> FALSE]
NoPod == [present |-> FALSE]

\* naming.StatefulSetNameForRack
StatefulSetNameForRack(rack, dc) == <<dc.Name, rack.Name>>
\* naming.MemberServiceName
MemberServiceName(rack, dc, ord) == <<dc.Name, rack.Name, ord>>
\* naming.PodNameFromService: the pod carries the name of its Service.
PodNameFromService(svcName) == svcName
\* fmt.Sprintf("%s-0", sts.Name)
FirstMemberName(sts) == Append(sts.Name, 0)

\* The UID of the StatefulSet of a rack, and a UID of another controller.
StatefulSetUID(rack) == <<"uid", rack>>
ForeignUID == <<"uid", "deleted">>

\* naming.ImageToVersion: the tag of the image reference; an error when the
\* reference has none.
ImageToVersion(image) ==
    IF Len(image) = 2
    THEN [version |-> image[2], err |-> FALSE]
    ELSE [version |-> "", err |-> TRUE]

\* naming.ScyllaVersion: the version of the pod's scylla container image.
ScyllaVersion(pod) == ImageToVersion(pod.Image)

\* controllerhelpers.GetRackNodeCount: the node count of the named rack of
\* the specification; an error when there is none.
GetRackNodeCount(dc, rackName) ==
    LET found == {i \in 1..Len(dc.Racks) : dc.Racks[i].Name = rackName}
    IN  IF found = {} \/ \A i \in found : dc.Racks[i].Nodes < 0
        THEN [count |-> 0, err |-> TRUE]
        ELSE [count |-> dc.Racks[CHOOSE i \in found : \A j \in found : i <= j].Nodes,
              err |-> FALSE]

\* podLister.Pods(ns).Get(name)
GetPod(name) ==
    IF name \in DOMAIN pods /\ pods[name].present
    THEN [pod |-> pods[name], err |-> FALSE]
    ELSE [pod |-> NoPod, err |-> TRUE]

\* controllerhelpers.IsScyllaDBIgnitionContainerReady
IsScyllaDBIgnitionContainerReady(pod) == pod.IgnitionReady
\* controllerhelpers.IsDelayedVolumeMountContainerRunning
IsDelayedVolumeMountContainerRunning(pod) == pod.DelayedVolumeMountRunning

(***************************************************************************)
(* Controller.getScyllaVersion                                             *)
(***************************************************************************)
getScyllaVersion(sts) ==
    LET firstMember == GetPod(FirstMemberName(sts))
    IN  IF firstMember.err
        THEN [version |-> "", err |-> TRUE]
        ELSE IF firstMember.pod.ControllerUID # sts.UID
        THEN [version |-> "", err |-> TRUE]
        ELSE ScyllaVersion(firstMember.pod)

(***************************************************************************)
(* Controller.calculateRackStatus                                          *)
(***************************************************************************)
ZeroRackStatus ==
    [Name |-> "", Nodes |-> 0, CurrentNodes |-> 0, UpdatedNodes |-> 0,
     ReadyNodes |-> 0, AvailableNodes |-> 0, Stale |-> TRUE,
     UpdatedVersion |-> "", CurrentVersion |-> ""]

\* calculateRackStatus with the staleness test the wrong way round at equal
\* generations.
calculateRackStatus_StaleOnEqual(dc, sts) ==
    IF ~sts.present THEN ZeroRackStatus
    ELSE LET scyllaDBImageVersion == ImageToVersion(dc.Image).version
             running == getScyllaVersion(sts)
         IN  [Name |-> sts.RackNameLabel,
              Nodes |-> sts.Replicas,
              ReadyNodes |-> sts.ReadyReplicas,
              AvailableNodes |-> sts.AvailableReplicas,
              UpdatedNodes |-> sts.UpdatedReplicas,
              CurrentNodes |-> sts.CurrentReplicas,
              Stale |-> sts.ObservedGeneration <= sts.Generation,
              UpdatedVersion |-> scyllaDBImageVersion,
              CurrentVersion |->
                  IF sts.Replicas = 0 THEN scyllaDBImageVersion
                  ELSE IF running.err THEN ""
                  ELSE running.version]

calculateRackStatus(dc, sts) ==
    IF ~sts.present THEN ZeroRackStatus
    ELSE LET scyllaDBImageVersion == ImageToVersion(dc.Image).version
             running == getScyllaVersion(sts)
         IN  [Name |-> sts.RackNameLabel,
              Nodes |-> sts.Replicas,
              ReadyNodes |-> sts.ReadyReplicas,
              AvailableNodes |-> sts.AvailableReplicas,
              UpdatedNodes |-> sts.UpdatedReplicas,
              CurrentNodes |-> sts.CurrentReplicas,
              Stale |-> sts.ObservedGeneration < sts.Generation,
              UpdatedVersion |-> scyllaDBImageVersion,
              CurrentVersion |->
                  IF sts.Replicas = 0 THEN scyllaDBImageVersion
                  ELSE IF running.err THEN ""
                  ELSE running.version]

(***************************************************************************)
(* updateAggregatedStatusFields                                            *)
(***************************************************************************)
RECURSIVE AddRacks(_, _, _)
\* The loop of updateAggregatedStatusFields: the three counters after the
\* racks from index i on are added to acc.
AddRacks(racks, i, acc) ==
    IF i > Len(racks) THEN acc
    ELSE AddRacks(racks, i + 1,
                  [Nodes |-> acc.Nodes + racks[i].Nodes,
                   ReadyNodes |-> acc.ReadyNodes + racks[i].ReadyNodes,
                   AvailableNodes |-> acc.AvailableNodes + racks[i].AvailableNodes])

\* updateAggregatedStatusFields adding to the counters the status already
\* holds (the reset to zero missing).
updateAggregatedStatusFields_NoReset(st) ==
    LET start == [Nodes |-> IF st.Nodes < 0 THEN 0 ELSE st.Nodes,
                  ReadyNodes |-> IF st.ReadyNodes < 0 THEN 0 ELSE st.ReadyNodes,
                  AvailableNodes |-> IF st.AvailableNodes < 0 THEN 0 ELSE st.AvailableNodes]
        sum == AddRacks(st.Racks, 1, start)
    IN  [st EXCEPT !.Nodes = sum.Nodes,
                   !.ReadyNodes = sum.ReadyNodes,
                   !.AvailableNodes = sum.AvailableNodes]

updateAggregatedStatusFields(st) ==
    LET sum == AddRacks(st.Racks, 1, [Nodes |-> 0, ReadyNodes |-> 0, AvailableNodes |-> 0])
    IN  [st EXCEPT !.Nodes = sum.Nodes,
                   !.ReadyNodes = sum.ReadyNodes,
                   !.AvailableNodes = sum.AvailableNodes]

(***************************************************************************)
(* Controller.calculateStatus                                              *)
(***************************************************************************)
\* statefulSetMap[stsName], nil when the map has no such key.
StatefulSetOf(stsMap, stsName) ==
    IF stsName \in DOMAIN stsMap THEN stsMap[stsName] ELSE NoStatefulSet

calculateStatus(dc, old, stsMap) ==
    LET racks == [i \in 1..Len(dc.Racks) |->
                    calculateRackStatus(dc,
                        StatefulSetOf(stsMap, StatefulSetNameForRack(dc.Racks[i], dc)))]
    IN  updateAggregatedStatusFields(
            [old EXCEPT !.ObservedGeneration = dc.Generation, !.Racks = racks])

(***************************************************************************)
(* Controller.setPrewarmedStatusCondition                                  *)
(***************************************************************************)
PrewarmedCondition == "Prewarmed"
AsExpectedReason == "AsExpected"

\* apimeta.SetStatusCondition: adds the condition, or updates the one of the
\* same type; the transition time changes only when the status changes.
SetStatusCondition(conditions, new, time) ==
    LET at == {i \in 1..Len(conditions) : conditions[i].Type = new.Type}
    IN  IF at = {}
        THEN Append(conditions, [new EXCEPT !.LastTransitionTime = time])
        ELSE LET i == CHOOSE j \in at : \A k \in at : j <= k
                 existing == conditions[i]
             IN  [conditions EXCEPT ![i] =
                    [new EXCEPT !.LastTransitionTime =
                        IF existing.Status # new.Status THEN time
                        ELSE existing.LastTransitionTime]]

RECURSIVE ScanOrdinals(_, _, _, _, _, _)
\* The inner loop over the ordinals of one rack, from ord on.
ScanOrdinals(dc, rack, svcs, ord, rackNodeCount, prewarmed) ==
    IF ord >= rackNodeCount THEN prewarmed
    ELSE LET svcName == MemberServiceName(rack, dc, ord)
         IN  IF svcName \notin svcs THEN FALSE
             ELSE LET got == GetPod(PodNameFromService(svcName))
                  IN  IF got.err THEN FALSE
                      ELSE IF \/ ~IsScyllaDBIgnitionContainerReady(got.pod)
                              \/ ~IsDelayedVolumeMountContainerRunning(got.pod)
                      THEN ScanOrdinals(dc, rack, svcs, ord + 1, rackNodeCount, FALSE)
                      ELSE ScanOrdinals(dc, rack, svcs, ord + 1, rackNodeCount, prewarmed)

RECURSIVE ScanRacks(_, _, _, _)
\* The outer loop over the racks of the specification, from index i on.
ScanRacks(dc, svcs, i, prewarmed) ==
    IF i > Len(dc.Racks) THEN prewarmed
    ELSE LET rack == dc.Racks[i]
             rackNodeCount == GetRackNodeCount(dc, rack.Name)
         IN  IF rackNodeCount.err THEN FALSE
             ELSE ScanRacks(dc, svcs, i + 1,
                            ScanOrdinals(dc, rack, svcs, 0, rackNodeCount.count, prewarmed))

RECURSIVE ScanRacks_LastRackDecides(_, _, _, _)
\* The scan with each rack overwriting the verdict of the racks before it.
ScanRacks_LastRackDecides(dc, svcs, i, prewarmed) ==
    IF i > Len(dc.Racks) THEN prewarmed
    ELSE LET rack == dc.Racks[i]
             rackNodeCount == GetRackNodeCount(dc, rack.Name)
         IN  IF rackNodeCount.err THEN FALSE
             ELSE ScanRacks_LastRackDecides(dc, svcs, i + 1,
                            ScanOrdinals(dc, rack, svcs, 0, rackNodeCount.count, TRUE))

PrewarmedTrue(dc) ==
    [Type |-> PrewarmedCondition, Status |-> "True", Reason |-> AsExpectedReason,
     Message |-> "", ObservedGeneration |-> dc.Generation, LastTransitionTime |-> 0]

PrewarmedFalse(dc) ==
    [Type |-> PrewarmedCondition, Status |-> "False", Reason |-> "NotAllNodesPrewarmed",
     Message |-> "Not all nodes are prewarmed yet.",
     ObservedGeneration |-> dc.Generation, LastTransitionTime |-> 0]

\* setPrewarmedStatusCondition in which a later rack resets the verdict.
setPrewarmedStatusCondition_LastRackDecides(dc, st, svcs, time) ==
    IF ScanRacks_LastRackDecides(dc, svcs, 1, TRUE)
    THEN [st EXCEPT !.Conditions = SetStatusCondition(@, PrewarmedTrue(dc), time)]
    ELSE [st EXCEPT !.Conditions = SetStatusCondition(@, PrewarmedFalse(dc), time)]

\* Whether the scan met a failing lookup before it ended.
RECURSIVE OrdinalLookupFails(_, _, _, _, _)
OrdinalLookupFails(dc, rack, svcs, ord, rackNodeCount) ==
    IF ord >= rackNodeCount THEN FALSE
    ELSE LET svcName == MemberServiceName(rack, dc, ord)
         IN  \/ svcName \notin svcs
             \/ GetPod(PodNameFromService(svcName)).err
             \/ OrdinalLookupFails(dc, rack, svcs, ord + 1, rackNodeCount)

\* setPrewarmedStatusCondition giving a reason of its own to a scan that
\* failed on a lookup.
setPrewarmedStatusCondition_LookupReason(dc, st, svcs, time) ==
    IF ScanRacks(dc, svcs, 1, TRUE)
    THEN [st EXCEPT !.Conditions = SetStatusCondition(@, PrewarmedTrue(dc), time)]
    ELSE IF \E i \in 1..Len(dc.Racks) :
               \/ GetRackNodeCount(dc, dc.Racks[i].Name).err
               \/ OrdinalLookupFails(dc, dc.Racks[i], svcs, 0,
                                     GetRackNodeCount(dc, dc.Racks[i].Name).count)
    THEN [st EXCEPT !.Conditions =
            SetStatusCondition(@, [PrewarmedFalse(dc) EXCEPT !.Reason = "LookupFailed"], time)]
    ELSE [st EXCEPT !.Conditions = SetStatusCondition(@, PrewarmedFalse(dc), time)]

setPrewarmedStatusCondition(dc, st, svcs, time) ==
    IF ScanRacks(dc, svcs, 1, TRUE)
    THEN [st EXCEPT !.Conditions = SetStatusCondition(@, PrewarmedTrue(dc), time)]
    ELSE [st EXCEPT !.Conditions = SetStatusCondition(@, PrewarmedFalse(dc), time)]

(***************************************************************************)
(* Datacenter controller: the objects of the cluster.                      *)
(***************************************************************************)
\* The status counts of a StatefulSet with n replicas, as the StatefulSet
\* controller maintains them: ready <= replicas, available <= ready; during
\* a rollout current + updated = replicas, after it current = updated.
ReplicaCounts(n) ==
    {t \in (0..n) \X (0..n) \X (0..n) \X (0..n) :
        /\ t[2] <= t[1]
        /\ \/ t[4] = n - t[3]
           \/ t[3] = n /\ t[4] = n}

StatefulSet(rack, replicas, ready, available, updated, cur, observed, generation) ==
    [present |-> TRUE,
     Name |-> <<SdcName, rack>>,
     UID |-> StatefulSetUID(rack),
     RackNameLabel |-> rack,
     Replicas |-> replicas,
     ReadyReplicas |-> ready,
     AvailableReplicas |-> available,
     UpdatedReplicas |-> updated,
     CurrentReplicas |-> cur,
     ObservedGeneration |-> observed,
     Generation |-> generation]

\* The StatefulSets of a rack; the observed generation never leads.
StatefulSets(rack) ==
    UNION { { StatefulSet(rack, n, c[1], c[2], c[3], c[4], 1, g) :
                c \in ReplicaCounts(n), g \in {1, 2} } :
              n \in 0..MaxReplicas }

Pod(uid, image, ignition, mount) ==
    [present |-> TRUE, ControllerUID |-> uid, Image |-> image,
     IgnitionReady |-> ignition, DelayedVolumeMountRunning |-> mount]

\* A member pod owned by the StatefulSet of its rack, running 6.1.0, with
\* both bootstrap containers up.
RunningPod(rack) == Pod(StatefulSetUID(rack), <<"scylladb/scylla", "6.1.0">>, TRUE, TRUE)

\* What one rack contributes to the cluster: its node count in the
\* specification (NilInt: none can be determined), its StatefulSet, and for
\* each ordinal whether the member Service exists and what the pod lister
\* returns for the member pod.
RackWorld(nodes, sts, members) == [Nodes |-> nodes, sts |-> sts, members |-> members]

NoRack == RackWorld(0, NoStatefulSet, <<>>)

\* Rack "b" as the status calculation sees it: every StatefulSet, with member
\* pods that are missing, owned and running a tagged image, owned and running
\* an untagged image, or left over from a deleted StatefulSet.
\* Rack "a" is one of three: not yet created; three nodes, all ready,
\* available, updated and current, generation observed; a scale-up to two
\* nodes under way, not yet observed.
StatusRackWorlds(rack) ==
    IF rack = "a"
    THEN {RackWorld(1, NoStatefulSet, <<[svc |-> TRUE, pod |-> NoPod]>>),
          RackWorld(3, StatefulSet(rack, 3, 3, 3, 3, 3, 1, 1),
                    [o \in 1..3 |-> [svc |-> TRUE, pod |-> RunningPod(rack)]]),
          RackWorld(2, StatefulSet(rack, 2, 1, 0, 1, 1, 1, 2),
                    <<[svc |-> TRUE, pod |-> RunningPod(rack)],
                      [svc |-> TRUE, pod |-> NoPod]>>)}
    ELSE {RackWorld(1, NoStatefulSet, <<[svc |-> TRUE, pod |-> NoPod]>>)}
         \cup { RackWorld(sts.Replicas, sts, <<>>) :
                  sts \in {s \in StatefulSets(rack) : s.Replicas = 0} }
         \cup { RackWorld(sts.Replicas, sts,
                          [o \in 1..sts.Replicas |-> [svc |-> TRUE, pod |-> p]]) :
                  sts \in {s \in StatefulSets(rack) : s.Replicas > 0},
                  p \in {NoPod,
                         RunningPod(rack),
                         Pod(StatefulSetUID(rack), <<"scylladb/scylla">>, TRUE, FALSE),
                         Pod(ForeignUID, <<"scylladb/scylla", "6.1.0">>, FALSE, TRUE)} }

\* Racks as the prewarm scan sees them: every node count, and for every
\* ordinal below it the member Service missing, the pod missing, or the pod
\* with every combination of container states.
PrewarmMembers ==
    {[svc |-> FALSE, pod |-> NoPod], [svc |-> TRUE, pod |-> NoPod]}
    \cup {[svc |-> TRUE, pod |-> Pod(ForeignUID, <<"scylladb/scylla", "6.1.0">>, i, m)] :
            i \in BOOLEAN, m \in BOOLEAN}

PrewarmRackWorlds(rack) ==
    {RackWorld(NilInt, NoStatefulSet, <<>>)}
    \cup UNION { {RackWorld(n, NoStatefulSet, ms) : ms \in [1..n -> PrewarmMembers]} :
                   n \in 0..MaxReplicas }

InList(names, r) == \E i \in 1..Len(names) : names[i] = r

MemberNames(names, rw) ==
    UNION { {<<SdcName, names[i], o - 1>> : o \in 1..Len(rw[names[i]].members)} :
              i \in 1..Len(names) }

World(names, image, rw) ==
    /\ sdc = [Name |-> SdcName, Generation |-> 2, Image |-> image,
              Racks |-> [i \in 1..Len(names) |-> [Name |-> names[i], Nodes |-> rw[names[i]].Nodes]]]
    /\ statefulSetMap =
          [n \in {<<SdcName, r>> : r \in {x \in RackNames : rw[x].sts.present}} |-> rw[n[2]].sts]
    /\ services = {n \in MemberNames(names, rw) : rw[n[2]].members[n[3] + 1].svc}
    /\ pods = [n \in MemberNames(names, rw) |-> rw[n[2]].members[n[3] + 1].pod]

PassIdle ==
    /\ now = 0
    /\ rpc = "idle"
    /\ current = EmptyStatus
    /\ status = EmptyStatus
    /\ arg = EmptyStatus
    /\ sent = <<>>
    /\ prev = "none"

\* The status of the datacenter before the pass: none yet, or the status
\* written for an earlier generation of the datacenter, which had one rack.
StoredStatuses ==
    {EmptyStatus,
     [ObservedGeneration |-> 1, Nodes |-> 2, ReadyNodes |-> 1, AvailableNodes |-> 1,
      Racks |-> <<[Name |-> "old", Nodes |-> 2, CurrentNodes |-> 2, UpdatedNodes |-> 2,
                   ReadyNodes |-> 1, AvailableNodes |-> 1, Stale |-> FALSE,
                   UpdatedVersion |-> "6.0.0", CurrentVersion |-> "6.0.0"]>>,
      Conditions |-> <<[Type |-> "Prewarmed", Status |-> "False",
                        Reason |-> "NotAllNodesPrewarmed",
                        Message |-> "Not all nodes are prewarmed yet.",
                        ObservedGeneration |-> 1, LastTransitionTime |-> 0]>>]}

StatusInit ==
    /\ ProbeParked
    /\ \E names \in RackNameLists, image \in Images :
         \E rw \in [RackNames -> UNION {StatusRackWorlds(r) : r \in RackNames} \cup {NoRack}] :
            /\ \A r \in RackNames :
                  IF InList(names, r) THEN rw[r] \in StatusRackWorlds(r) ELSE rw[r] = NoRack
            /\ World(names, image, rw)
    /\ stored \in StoredStatuses
    /\ PassIdle

PrewarmInit ==
    /\ ProbeParked
    /\ \E names \in RackNameLists :
         \E rw \in [RackNames -> UNION {PrewarmRackWorlds(r) : r \in RackNames} \cup {NoRack}] :
            /\ \A r \in RackNames :
                  IF InList(names, r) THEN rw[r] \in PrewarmRackWorlds(r) ELSE rw[r] = NoRack
            /\ World(names, <<"scylladb/scylla", "6.2.0">>, rw)
    /\ stored \in StoredStatuses
    /\ PassIdle

(***************************************************************************)
(* One reconciliation pass: calculateStatus, setPrewarmedStatusCondition,  *)
(* updateStatus.                                                           *)
(***************************************************************************)
Sync_CalculateStatus ==
    /\ rpc = "idle"
    /\ now < MaxPasses
    /\ now' = now + 1
    /\ current' = stored
    /\ status' = calculateStatus(sdc, stored, statefulSetMap)
    /\ rpc' = "calculated"
    /\ UNCHANGED <<worldVars, stored, arg, sent, prev, probeVars>>

Sync_SetPrewarmedStatusCondition ==
    /\ rpc = "calculated"
    /\ status' = setPrewarmedStatusCondition(sdc, status, services, now)
    /\ rpc' = "prewarmed"
    /\ UNCHANGED <<worldVars, stored, now, current, arg, sent, prev, probeVars>>

\* The statuses the caller may hand to updateStatus: the calculated one, or
\* the calculated one with the entry of one rack replaced "live" after the
\* caller scaled that rack's StatefulSet up by one (the aggregated fields
\* are then those of before the replacement).
StatusArguments ==
    {status}
    \cup { [status EXCEPT !.Racks[i] =
              calculateRackStatus(sdc,
                  LET sts == StatefulSetOf(statefulSetMap, StatefulSetNameForRack(sdc.Racks[i], sdc))
                  IN  [sts EXCEPT !.Replicas = @ + 1, !.Generation = @ + 1])] :
             i \in {j \in 1..Len(sdc.Racks) :
                      StatefulSetOf(statefulSetMap,
                                    StatefulSetNameForRack(sdc.Racks[j], sdc)).present} }

\* updateStatus calling UpdateStatus whether or not the status changed.
updateStatus_AlwaysWrites(st) ==
    /\ rpc = "prewarmed"
    /\ arg' = st
    /\ LET object == updateAggregatedStatusFields(st)
       IN  /\ sent' = Append(sent, object)
           /\ \/ stored' = object /\ rpc' = "wrote"
              \/ stored' = stored /\ rpc' = "failed"
    /\ UNCHANGED <<worldVars, now, current, status, prev, probeVars>>

\* Controller.updateStatus(ctx, currentSC, st).  UpdateStatus succeeds, and
\* the API server then holds the object sent, or fails.
updateStatus(st) ==
    /\ rpc = "prewarmed"
    /\ arg' = st
    /\ IF current = st
       THEN /\ rpc' = "skipped"
            /\ UNCHANGED <<sent, stored>>
       ELSE LET object == updateAggregatedStatusFields(st)
            IN  /\ sent' = Append(sent, object)
                /\ \/ stored' = object /\ rpc' = "wrote"
                   \/ stored' = stored /\ rpc' = "failed"
    /\ UNCHANGED <<worldVars, now, current, status, prev, probeVars>>

Sync_UpdateStatus == \E st \in StatusArguments : updateStatus(st)

\* The pass is over; the next one starts from the same objects.
Sync_Return ==
    /\ rpc \in {"skipped", "wrote", "failed"}
    /\ prev' = IF arg # status THEN "live" ELSE rpc
    /\ rpc' = "idle"
    /\ current' = EmptyStatus
    /\ status' = EmptyStatus
    /\ arg' = EmptyStatus
    /\ sent' = <<>>
    /\ UNCHANGED <<worldVars, stored, now, probeVars>>

StatusNext ==
    \/ Sync_CalculateStatus
    \/ Sync_SetPrewarmedStatusCondition
    \/ Sync_UpdateStatus
    \/ Sync_Return

StatusSpec == StatusInit /\ [][StatusNext]_vars

PrewarmSpec == PrewarmInit /\ [][StatusNext]_vars

(***************************************************************************)
(* Properties of the probe handlers.                                       *)
(***************************************************************************)
NoStatError == \A i \in 1..Len(statResults) : statResults[i] # "error"
SomePathAbsent == \E i \in 1..Len(statResults) : statResults[i] = "absent"
AllPathsExist == \A i \in 1..Len(statResults) : statResults[i] = "exists"
ServiceHasMaintenanceLabel == ~svc.err /\ NodeMaintenanceLabel \in svc.labels
DatabaseNotConsulted ==
    /\ client = "none" /\ statusCall = "none" /\ hostIDCall = "none"
    /\ pingCall = "none" /\ transport = <<>>

\* C1: a finished Readyz invocation has answered 200 exactly when every await
\* path exists, the Service lookup succeeded and shows no maintenance label,
\* the client was created, the node-status list and the local host ID were
\* fetched, and the list holds an up-and-normal entry with the local host ID
\* whose native-transport query succeeded and returned enabled; in every
\* other case the answer is not 200.
C1_ReadyzOKExactlyWhenAllChecksPass ==
    (handler = "Readyz" /\ pc = "done") =>
        ( (written = <<200>>)
          <=> /\ AllPathsExist
              /\ ~svc.err
              /\ NodeMaintenanceLabel \notin svc.labels
              /\ client = "ok"
              /\ statusCall = "ok"
              /\ hostIDCall = "ok"
              /\ \E i \in 1..Len(nodeStatuses) :
                    /\ nodeStatuses[i].HostID = hostID
                    /\ nodeStatuses[i].Status = "U"
                    /\ nodeStatuses[i].State = "N"
                    /\ transport[i] = "enabled" )

\* Readyz answered 200 on the second matching entry, after the query made
\* for the first matching entry returned disabled.
C1_Witness ==
    /\ handler = "Readyz" /\ pc = "done"
    /\ written = <<200>>
    /\ Len(nodeStatuses) = 2
    /\ transport = <<"disabled", "enabled">>

\* C2: with no stat error, when (a) some await path is absent, whatever the
\* Service lookup would give, or (b) all paths exist and the Service carries
\* the maintenance label, Readyz answers 503, Healthz answers 200, and the
\* database API is not consulted.
C2_ProvisioningAndMaintenanceAreLiveNotReady ==
    ( /\ pc = "done"
      /\ NoStatError
      /\ SomePathAbsent \/ (AllPathsExist /\ ServiceHasMaintenanceLabel) )
    => /\ handler = "Readyz" => written = <<503>>
       /\ handler = "Healthz" => written = <<200>>
       /\ DatabaseNotConsulted

\* Healthz answered 200 for a node awaiting a path whose Service lookup
\* would have failed: the await-paths check came first.
C2_Witness ==
    /\ handler = "Healthz" /\ pc = "done"
    /\ NoStatError /\ SomePathAbsent
    /\ svc.err
    /\ written = <<200>>

\* C3: when the await-paths check passes and the Service lookup fails, both
\* handlers answer 500.
C3_MaintenanceLookupFailureIsInternalError ==
    (pc = "done" /\ AllPathsExist /\ svc.err) => written = <<500>>

\* The answer Healthz gives, as a function of the await paths, the Service
\* lookup, the client creation and the ping alone.
HealthzAnswer ==
    IF ~NoStatError THEN 500
    ELSE IF SomePathAbsent THEN 200
    ELSE IF svc.err THEN 503
    ELSE IF NodeMaintenanceLabel \in svc.labels THEN 200
    ELSE IF client = "error" THEN 500
    ELSE IF pingCall = "ok" THEN 200
    ELSE 503

\* C4: once the client is created, a failing node-status list call or a
\* failing local host-ID call makes Readyz answer 500; Healthz makes neither
\* call, and its answer is determined by the await paths, the Service
\* lookup, the client creation and the ping.
C4_StatusOrHostIDErrorIsInternalError ==
    /\ ( /\ handler = "Readyz" /\ pc = "done"
         /\ client = "ok"
         /\ statusCall = "error" \/ hostIDCall = "error" )
       => written = <<500>>
    /\ (handler = "Healthz" /\ pc = "done")
       => /\ statusCall = "none" /\ hostIDCall = "none"
          /\ written = <<HealthzAnswer>>

\* Readyz fetched the node-status list, then failed to fetch the host ID.
C4_Witness ==
    /\ handler = "Readyz" /\ pc = "done"
    /\ statusCall = "ok" /\ Len(nodeStatuses) > 0
    /\ hostIDCall = "error"
    /\ written = <<500>>

\* C5: a handler writes nothing before it returns, and when it returns it
\* has written exactly one status code, one of 200, 503, 500.
C5_ExactlyOneStatusCodeWritten ==
    /\ pc # "done" => written = <<>>
    /\ pc = "done" => /\ Len(written) = 1
                      /\ written[1] \in {200, 503, 500}

\* Readyz went through the whole list, querying the native transport for two
\* matching entries, and answered once at the end.
C5_Witness ==
    /\ handler = "Readyz" /\ pc = "done"
    /\ Len(nodeStatuses) = 2
    /\ transport = <<"disabled", "disabled">>
    /\ written = <<503>>

(***************************************************************************)
(* Properties of the status calculation.                                   *)
(***************************************************************************)
PassCalculated == rpc \in {"calculated", "prewarmed", "skipped", "wrote", "failed"}
PassPrewarmed == rpc \in {"prewarmed", "skipped", "wrote", "failed"}
PassDone == rpc \in {"skipped", "wrote", "failed"}

RECURSIVE SumOver(_, _)
\* The sum of a sequence of numbers.
SumOver(numbers, n) == IF n = 0 THEN 0 ELSE numbers[n] + SumOver(numbers, n - 1)

AggregatesAreRackSums(st) ==
    /\ st.Nodes = SumOver([i \in 1..Len(st.Racks) |-> st.Racks[i].Nodes], Len(st.Racks))
    /\ st.ReadyNodes =
          SumOver([i \in 1..Len(st.Racks) |-> st.Racks[i].ReadyNodes], Len(st.Racks))
    /\ st.AvailableNodes =
          SumOver([i \in 1..Len(st.Racks) |-> st.Racks[i].AvailableNodes], Len(st.Racks))

\* C6: in the status calculateStatus returns, and in every status object
\* updateStatus sends to the store, Nodes, ReadyNodes and AvailableNodes are
\* the sums of the racks' Nodes, ReadyNodes and AvailableNodes, whatever the
\* previous status held.
C6_AggregatedCountsAreRackSums ==
    /\ PassCalculated => AggregatesAreRackSums(status)
    /\ \A i \in 1..Len(sent) : AggregatesAreRackSums(sent[i])

\* A status was sent whose rack entry had been replaced after the
\* calculation, for a datacenter whose previous status counted two nodes.
C6_Witness ==
    /\ rpc = "wrote"
    /\ current.Nodes = 2
    /\ arg # status
    /\ ~AggregatesAreRackSums(arg)
    /\ sent[1].Nodes # current.Nodes

\* C7: UpdateStatus is called only when the status handed to updateStatus
\* differs from the stored one, and at most once; and a pass after a pass
\* whose write succeeded, over the same objects, calculates the stored status
\* again and writes nothing.
C7_StatusWrittenOnlyOnChange ==
    /\ Len(sent) <= 1
    /\ sent # <<>> => arg # current
    /\ (PassDone /\ prev = "wrote" /\ arg = status)
       => /\ status = current
          /\ sent = <<>>
          /\ rpc = "skipped"

\* The second pass over a datacenter of two racks, after a first pass that
\* replaced the status of an earlier generation, wrote nothing.
C7_Witness ==
    /\ rpc = "skipped"
    /\ prev = "wrote"
    /\ now = 2
    /\ Len(status.Racks) = 2
    /\ status.ObservedGeneration = 2
    /\ status.Conditions # <<>>

\* C8: the calculated Racks list has one entry per rack of the
\* specification, in the order of the specification; the entry of a rack
\* without StatefulSet has zero counts and is stale, the entry of a rack with
\* one copies its counts and is stale exactly when the observed generation
\* is less than the generation.
C8_OneRackStatusPerSpecRackInOrder ==
    PassCalculated =>
        /\ Len(status.Racks) = Len(sdc.Racks)
        /\ \A i \in 1..Len(sdc.Racks) :
              LET key == <<sdc.Name, sdc.Racks[i].Name>>
                  entry == status.Racks[i]
              IN  IF key \notin DOMAIN statefulSetMap
                  THEN /\ entry.Nodes = 0 /\ entry.CurrentNodes = 0
                       /\ entry.UpdatedNodes = 0 /\ entry.ReadyNodes = 0
                       /\ entry.AvailableNodes = 0
                       /\ entry.Stale = TRUE
                  ELSE LET sts == statefulSetMap[key]
                       IN  /\ entry.Name = sdc.Racks[i].Name
                           /\ entry.Nodes = sts.Replicas
                           /\ entry.CurrentNodes = sts.CurrentReplicas
                           /\ entry.UpdatedNodes = sts.UpdatedReplicas
                           /\ entry.ReadyNodes = sts.ReadyReplicas
                           /\ entry.AvailableNodes = sts.AvailableReplicas
                           /\ entry.Stale = (sts.ObservedGeneration < sts.Generation)

\* Rack "a" observed with 3/3/3/3 nodes and its generation observed, rack "b"
\* without StatefulSet, the previous status listing another rack.
C8_Witness ==
    /\ rpc = "calculated"
    /\ Len(sdc.Racks) = 2 /\ sdc.Racks[1].Name = "a" /\ sdc.Racks[2].Name = "b"
    /\ Len(current.Racks) = 1
    /\ status.Nodes = 3 /\ status.ReadyNodes = 3 /\ status.AvailableNodes = 3
    /\ status.Racks[1].Name = "a" /\ status.Racks[1].Stale = FALSE
    /\ status.Racks[1].CurrentNodes = 3 /\ status.Racks[1].UpdatedNodes = 3
    /\ status.Racks[2].Nodes = 0 /\ status.Racks[2].Stale = TRUE

\* Every member of every rack of the specification is prewarmed: the rack's
\* node count is known, and for each ordinal below it the member Service is
\* in the map, the pod is found, its ignition container is ready and its
\* delayed-volume-mount container runs.
MemberLookupFails(i, ord) ==
    LET name == <<sdc.Name, sdc.Racks[i].Name, ord>>
    IN  \/ name \notin services
        \/ name \notin DOMAIN pods
        \/ ~pods[name].present

MemberNotReady(i, ord) ==
    LET name == <<sdc.Name, sdc.Racks[i].Name, ord>>
    IN  /\ ~MemberLookupFails(i, ord)
        /\ ~(pods[name].IgnitionReady /\ pods[name].DelayedVolumeMountRunning)

AllNodesPrewarmed ==
    \A i \in 1..Len(sdc.Racks) :
        /\ sdc.Racks[i].Nodes >= 0
        /\ \A ord \in 0..(sdc.Racks[i].Nodes - 1) :
              ~MemberLookupFails(i, ord) /\ ~MemberNotReady(i, ord)

SomeLookupFails ==
    \E i \in 1..Len(sdc.Racks) :
        \/ sdc.Racks[i].Nodes < 0
        \/ \E ord \in 0..(sdc.Racks[i].Nodes - 1) : MemberLookupFails(i, ord)

SomeMemberNotReady ==
    \E i \in 1..Len(sdc.Racks) :
        \E ord \in 0..(sdc.Racks[i].Nodes - 1) : MemberNotReady(i, ord)

PrewarmedConditions ==
    {i \in 1..Len(status.Conditions) : status.Conditions[i].Type = "Prewarmed"}

\* C9: after setPrewarmedStatusCondition the status holds one Prewarmed
\* condition; it is True exactly when every member of every rack is
\* prewarmed, and otherwise False with a non-empty reason, also when the
\* racks scanned after the failing one are fully prewarmed.
C9_PrewarmedExactlyWhenEveryMemberIs ==
    PassPrewarmed =>
        /\ Cardinality(PrewarmedConditions) = 1
        /\ \A i \in PrewarmedConditions :
              /\ status.Conditions[i].Status \in {"True", "False"}
              /\ (status.Conditions[i].Status = "True") <=> AllNodesPrewarmed
              /\ status.Conditions[i].Status = "False" => status.Conditions[i].Reason # ""

\* The first rack scanned lacks the member Service of its only node; the
\* rack scanned after it is fully prewarmed; the condition is False.
C9_Witness ==
    /\ rpc = "prewarmed"
    /\ Len(sdc.Racks) = 2
    /\ sdc.Racks[1].Nodes = 1 /\ <<sdc.Name, sdc.Racks[1].Name, 0>> \notin services
    /\ sdc.Racks[2].Nodes = 1
    /\ ~MemberLookupFails(2, 0) /\ ~MemberNotReady(2, 0)
    /\ \A i \in PrewarmedConditions : status.Conditions[i].Status = "False"

\* The reason of a Prewarmed condition set to False by a scan in which every
\* lookup succeeded and some container was not ready.
NotYetReadyReason == "NotAllNodesPrewarmed"

\* C10, as claimed: a scan that failed on a lookup gives the False condition
\* a reason other than the one a scan gets in which all lookups succeeded
\* and some container is not ready.
C10_ReasonDistinguishesLookupFailure ==
    (PassPrewarmed /\ SomeLookupFails)
    => \A i \in PrewarmedConditions : status.Conditions[i].Reason # NotYetReadyReason

\* C10, amended: whenever the Prewarmed condition is False, after a failed
\* lookup as after a container found not ready, its reason is
\* "NotAllNodesPrewarmed" and its message "Not all nodes are prewarmed yet.".
C10_FalseReasonIsTheSameForBothCauses ==
    PassPrewarmed =>
        \A i \in PrewarmedConditions :
            status.Conditions[i].Status = "False"
            => /\ SomeLookupFails \/ SomeMemberNotReady
               /\ status.Conditions[i].Reason = "NotAllNodesPrewarmed"
               /\ status.Conditions[i].Message = "Not all nodes are prewarmed yet."

\* A scan that failed on a lookup, with no container found not ready.
C10_Witness ==
    /\ rpc = "prewarmed"
    /\ SomeLookupFails /\ ~SomeMemberNotReady
    /\ \A i \in PrewarmedConditions :
          /\ status.Conditions[i].Status = "False"
          /\ status.Conditions[i].Reason = "NotAllNodesPrewarmed"

\* A scan in which every lookup succeeded and a container was not ready.
C10_NotYetReadyReached ==
    /\ rpc = "prewarmed"
    /\ ~SomeLookupFails /\ SomeMemberNotReady
    /\ \A i \in PrewarmedConditions :
          /\ status.Conditions[i].Status = "False"
          /\ status.Conditions[i].Reason = NotYetReadyReason

====
